---- MODULE Spec2Model ----
(***************************************************************************)
(* Voice Vault server (voice_vault_server): feature extraction, voiceprint *)
(* aggregation, speaker matching, and the Flask handlers that drive them.  *)
(*                                                                         *)
(* Numbers.  numpy float64 values are modelled by exact real arithmetic    *)
(* (rounding is not modelled):                                             *)
(*   - a rational is a reduced pair <<n, d>> with d > 0;                   *)
(*   - a vector is [c, e, q]: the components c (rationals), scaled by      *)
(*     10^(-e) and divided by sqrt(q).  e carries magnitudes far below     *)
(*     the epsilon 1e-10, q carries a division by an irrational norm;      *)
(*   - a scalar is [s, q, e]: s * sqrt(q) * 10^(-e), s the sign.           *)
(* A cosine distance d is held by its similarity 1 - d (a scalar with      *)
(* e = 0), so 2.0 is the similarity -1 and 0.0 the similarity 1.           *)
(* Python's None is the empty tuple, a present value x is <<x>>.           *)
(***************************************************************************)
EXTENDS Integers, Sequences, FiniteSets, TLC

None == <<>>
Some(x) == <<x>>

\* ---------------------------------------------------------------- rationals
Abs(n) == IF n < 0 THEN -n ELSE n

RECURSIVE GCD(_, _)
GCD(a, b) == IF b = 0 THEN a ELSE GCD(b, a % b)

Rat(n, d) ==
    LET g == GCD(Abs(n), Abs(d))
        sg == IF d < 0 THEN -1 ELSE 1
    IN  <<(sg * n) \div g, (sg * d) \div g>>

RZero == <<0, 1>>
ROne == <<1, 1>>
RInt(n) == <<n, 1>>
RInv(a) == IF a[1] < 0 THEN <<-a[2], -a[1]>> ELSE <<a[2], a[1]>>
RAdd(a, b) ==
    LET g == GCD(a[2], b[2])
    IN  Rat(a[1] * (b[2] \div g) + b[1] * (a[2] \div g), (a[2] \div g) * b[2])
\* a and b reduced: cancel across before multiplying
RMul(a, b) ==
    LET g1 == GCD(Abs(a[1]), b[2])
        g2 == GCD(Abs(b[1]), a[2])
    IN  <<(a[1] \div g1) * (b[1] \div g2), (a[2] \div g2) * (b[2] \div g1)>>
RDiv(a, b) == RMul(a, RInv(b))
RSign(a) == IF a[1] > 0 THEN 1 ELSE IF a[1] < 0 THEN -1 ELSE 0

\* a < b, by integer parts and then the reciprocals of the fractional parts
RECURSIVE RLess(_, _)
RLess(a, b) ==
    LET fa == a[1] \div a[2]
        fb == b[1] \div b[2]
        ra == a[1] % a[2]
        rb == b[1] % b[2]
    IN  IF fa # fb THEN fa < fb
        ELSE IF ra = 0 THEN rb > 0
        ELSE IF rb = 0 THEN FALSE
        ELSE RLess(<<b[2], rb>>, <<a[2], ra>>)

\* floor of the square root, by bisection
RECURSIVE SqrtSearch(_, _, _)
SqrtSearch(n, lo, hi) ==
    IF lo >= hi THEN lo
    ELSE LET mid == (lo + hi + 1) \div 2
         IN  IF mid * mid <= n THEN SqrtSearch(n, mid, hi) ELSE SqrtSearch(n, lo, mid - 1)
SqrtNat(n) == SqrtSearch(n, 0, IF n < 46340 THEN n ELSE 46340)
IsSquareNat(n) == SqrtNat(n) * SqrtNat(n) = n
RIsSquare(a) == a[1] >= 0 /\ IsSquareNat(a[1]) /\ IsSquareNat(a[2])
RSqrt(a) == <<SqrtNat(a[1]), SqrtNat(a[2])>>

RECURSIVE Pow10(_)
Pow10(k) == IF k = 0 THEN 1 ELSE 10 * Pow10(k - 1)

\* ------------------------------------------------------------------ scalars
\* s * sqrt(q) * 10^(-e)
Scalar(s, q, e) == [s |-> s, q |-> q, e |-> e]

\* a > 10^(-m), multiplying a by ten until it passes 1
RECURSIVE RAboveNegPow10(_, _)
RAboveNegPow10(a, m) ==
    IF RLess(ROne, a) THEN TRUE
    ELSE IF m = 0 THEN FALSE
    ELSE RAboveNegPow10(RMul(a, RInt(10)), m - 1)

\* x > 10^(-k), by comparing squares: q * 10^(-2e) > 10^(-2k)
ScalarAbovePow10(x, k) ==
    /\ x.s > 0
    /\ IF x.e <= k
         THEN RAboveNegPow10(x.q, 2 * (k - x.e))
         ELSE RLess(RInt(Pow10(2 * (x.e - k))), x.q)

ScalarIsZero(x) == x.s = 0
ScalarMul(x, y) == Scalar(x.s * y.s, RMul(x.q, y.q), x.e + y.e)
ScalarDiv(x, y) == Scalar(x.s * y.s, RDiv(x.q, y.q), x.e - y.e)

\* x < y for scalars with e = 0 (similarities), by signed squares
SignedSq(x) == <<x.s * x.q[1], x.q[2]>>
SimLess(x, y) == RLess(SignedSq(x), SignedSq(y))

\* ------------------------------------------------------------------ vectors
Vec(c, e, q) == [c |-> c, e |-> e, q |-> q]
Shape(v) == Len(v.c)

\* a vector of dimension n from integer leading components, zeros after
Pad(lead, n) == [i \in 1..n |-> IF i <= Len(lead) THEN RInt(lead[i]) ELSE RZero]

\* sums over the components lo..hi, by halves
RECURSIVE RSumSq(_, _, _)
RSumSq(c, lo, hi) ==
    IF lo > hi THEN RZero
    ELSE IF lo = hi THEN RMul(c[lo], c[lo])
    ELSE LET mid == (lo + hi) \div 2
         IN  RAdd(RSumSq(c, lo, mid), RSumSq(c, mid + 1, hi))

RECURSIVE RDot(_, _, _, _)
RDot(a, b, lo, hi) ==
    IF lo > hi THEN RZero
    ELSE IF lo = hi THEN RMul(a[lo], b[lo])
    ELSE LET mid == (lo + hi) \div 2
         IN  RAdd(RDot(a, b, lo, mid), RDot(a, b, mid + 1, hi))

\* (Values used more than once are passed as operator arguments, which TLC
\* evaluates once.)
\* the scalar sqrt(ss / q) * 10^(-e) of a sum of squares ss
NormOf(ss, q, e) == Scalar(RSign(ss), RDiv(ss, q), e)
\* np.linalg.norm(v)
Norm(v) == NormOf(RSumSq(v.c, 1, Len(v.c)), v.q, v.e)

\* the scalar d / sqrt(q) * 10^(-e) of a rational d
DotOf(d, q, e) == Scalar(RSign(d), RDiv(RMul(d, d), q), e)
\* np.dot(a, b)
Dot(a, b) == DotOf(RDot(a.c, b.c, 1, Len(a.c)), RMul(a.q, b.q), a.e + b.e)

DivByRoot(c, root) == Vec([i \in 1..Len(c) |-> RDiv(c[i], root)], 0, ROne)
DivBySqrt(c, ss) == IF RIsSquare(ss) THEN DivByRoot(c, RSqrt(ss)) ELSE Vec(c, 0, ss)
\* v / np.linalg.norm(v), for a norm that is not zero: the scale of v
\* cancels and the components are divided by sqrt(sum of squares), kept
\* rational when that root is rational.
DivByNorm(v) == DivBySqrt(v.c, RSumSq(v.c, 1, Len(v.c)))

\* the epsilon of the normalisation guards: 1e-10
EpsExp == 10
NormAboveEps(v) == ScalarAbovePow10(Norm(v), EpsExp)

\* ------------------------------------------------------------------ matcher
\* the distance 2.0 (similarity -1) and the distance 0.0 (similarity 1)
DistTwo == Scalar(-1, ROne, 0)
DistZero == Scalar(1, ROne, 0)
\* d1 < d2 on distances held by their similarities
DistLess(d1, d2) == SimLess(d2, d1)

\* _cosine_distance: the guard compares the norms with 0.0, not with epsilon
\* cosine_of without the zero-norm guard's maximum: a zero norm gives 0.0
cosine_of_zero_close(dot, norm_a, norm_b) ==
    IF ScalarIsZero(norm_a) \/ ScalarIsZero(norm_b)
      THEN DistZero
      ELSE ScalarDiv(dot, ScalarMul(norm_a, norm_b))

cosine_of(dot, norm_a, norm_b) ==
    IF ScalarIsZero(norm_a) \/ ScalarIsZero(norm_b)
      THEN DistTwo
      ELSE ScalarDiv(dot, ScalarMul(norm_a, norm_b))
cosine_distance(a, b) == cosine_of(Dot(a, b), Norm(a), Norm(b))

\* predict_step with "dist <= best_distance": a tie moves to the later entry
predict_step_last_tie(best, entry, sample_feature) ==
    IF Shape(entry.vec) # Shape(sample_feature)
      THEN best
      ELSE LET vp == entry.vec
               vp_normed == IF NormAboveEps(vp) THEN DivByNorm(vp) ELSE vp
               keep_last(dist) ==
                   IF best.distance = None \/ ~DistLess(best.distance[1], dist)
                     THEN [user |-> Some(entry.user), distance |-> Some(dist)]
                     ELSE best
           IN  keep_last(cosine_distance(sample_feature, vp_normed))

\* one iteration of the loop over voiceprints.items(); best is
\* [user, distance], both None before the first compatible entry
predict_step(best, entry, sample_feature) ==
    IF Shape(entry.vec) # Shape(sample_feature)
      THEN best
      ELSE LET vp == entry.vec
               vp_normed == IF NormAboveEps(vp) THEN DivByNorm(vp) ELSE vp
               keep_min(dist) ==
                   IF best.distance = None \/ DistLess(dist, best.distance[1])
                     THEN [user |-> Some(entry.user), distance |-> Some(dist)]
                     ELSE best
           IN  keep_min(cosine_distance(sample_feature, vp_normed))

\* predict_loop leaving the loop at the first entry of another dimension
RECURSIVE predict_loop_break(_, _, _, _)
predict_loop_break(voiceprints, i, sample_feature, best) ==
    IF i > Len(voiceprints)
      THEN best
      ELSE IF Shape(voiceprints[i].vec) # Shape(sample_feature)
        THEN best
        ELSE predict_loop_break(voiceprints, i + 1, sample_feature,
                                predict_step(best, voiceprints[i], sample_feature))

RECURSIVE predict_loop(_, _, _, _)
predict_loop(voiceprints, i, sample_feature, best) ==
    IF i > Len(voiceprints)
      THEN best
      ELSE predict_loop(voiceprints, i + 1, sample_feature,
                        predict_step(best, voiceprints[i], sample_feature))

\* predict_speaker(voiceprints, sample_feature): voiceprints is the dict in
\* its iteration order, a sequence of [user, vec] with distinct users
predict_return(best) ==
    IF best.user = None THEN [user |-> None, distance |-> None] ELSE best

predict_speaker(voiceprints, sample_feature) ==
    IF Len(voiceprints) = 0
      THEN [user |-> None, distance |-> None]
      ELSE predict_return(
               predict_loop(voiceprints, 1,
                            IF NormAboveEps(sample_feature)
                              THEN DivByNorm(sample_feature)
                              ELSE sample_feature,
                            [user |-> None, distance |-> None]))

\* ------------------------------------------------------------ configuration
ADMIN_PASSWORD == "admin123"
\* DISTANCE_THRESHOLD = 0.01, as the fraction ThresholdNum / ThresholdDen
ThresholdNum == 1
ThresholdDen == 100
SAMPLE_RATE == 16000
\* N_MFCC, the number of MFCC rows (config.py sets 13): the model runs with
\* small counts, which keeps the feature vectors short
N_MFCC == 2
\* dimension of a feature vector: mean and std of c1..c(N_MFCC-1)
FeatDim == 2 * (N_MFCC - 1)

\* distance < DISTANCE_THRESHOLD: similarity > 1 - threshold
ThresholdSim ==
    LET t == Rat(ThresholdDen - ThresholdNum, ThresholdDen)
    IN  Scalar(1, RMul(t, t), 0)
BelowThreshold(distance) == SimLess(ThresholdSim, distance)

\* ------------------------------------------------------- feature extraction
\* A waveform is the sequence of the half-open ranges <<lo, hi>> of sample
\* positions of the loaded signal that it holds, in order.
RECURSIVE WaveSize(_)
WaveSize(w) == IF Len(w) = 0 THEN 0 ELSE (w[1][2] - w[1][1]) + WaveSize(Tail(w))

Min(a, b) == IF a < b THEN a ELSE b

\* y[start:end] of a waveform of one range (numpy slicing clamps to the size)
Slice(w, start, end) ==
    IF Len(w) = 0 THEN <<>>
    ELSE LET size == w[1][2] - w[1][1]
             s == Min(start, size)
             e == Min(end, size)
         IN  IF s >= e THEN <<>> ELSE << <<w[1][1] + s, w[1][1] + e>> >>

\* np.concatenate([y_trimmed[start:end] for start, end in intervals])
RECURSIVE ConcatSlices(_, _)
ConcatSlices(w, intervals) ==
    IF Len(intervals) = 0 THEN <<>>
    ELSE Slice(w, intervals[1][1], intervals[1][2]) \o ConcatSlices(w, Tail(intervals))

\* _apply_vad without the fall back to the original signal
apply_vad_no_fallback(y, trim, split) ==
    LET y_trimmed == Slice(y, trim[1], trim[2])
        y_voiced == ConcatSlices(y_trimmed, split)
    IN  IF Len(split) = 0 THEN y_trimmed
        ELSE IF WaveSize(y_voiced) = 0 THEN y_trimmed
        ELSE y_voiced

\* _apply_vad(y): trim is the index pair librosa.effects.trim keeps of y,
\* split the interval list librosa.effects.split returns for y_trimmed
apply_vad(y, trim, split) ==
    LET t == Slice(y, trim[1], trim[2])
        y_trimmed == IF WaveSize(t) = 0 THEN y ELSE t
        y_voiced == ConcatSlices(y_trimmed, split)
    IN  IF Len(split) = 0 THEN y_trimmed
        ELSE IF WaveSize(y_voiced) = 0 THEN y_trimmed
        ELSE y_voiced

\* the waveform librosa.load returns for a recording of n samples
Loaded(n) == IF n = 0 THEN <<>> ELSE << <<0, n>> >>

Raised(msg) == [ok |-> FALSE, error |-> msg, features |-> None]
Returned(v) == [ok |-> TRUE, error |-> "", features |-> Some(v)]

\* extract_features with "y_voiced.size <= 0.5 * SAMPLE_RATE"
extract_features_inclusive(rec) ==
    LET y == Loaded(rec.n)
    IN  IF WaveSize(y) = 0 THEN Raised("Empty audio signal.")
        ELSE LET y_voiced == apply_vad(y, rec.trim, rec.split)
             IN  IF 2 * WaveSize(y_voiced) <= SAMPLE_RATE
                   THEN Raised("Less than 0.5s of voiced speech.")
                 ELSE IF N_MFCC < 2
                   THEN Raised("Not enough MFCC coefficients computed.")
                 ELSE IF NormAboveEps(rec.raw)
                   THEN Returned(DivByNorm(rec.raw))
                   ELSE Returned(rec.raw)

\* extract_features(filepath): rec is the saved recording, [n, trim, split,
\* raw]: n samples, what trim and split answer for it, and raw, the
\* concatenated mean/std statistics librosa's MFCCs give for the voiced part
extract_features(rec) ==
    LET y == Loaded(rec.n)
    IN  IF WaveSize(y) = 0 THEN Raised("Empty audio signal.")
        ELSE LET y_voiced == apply_vad(y, rec.trim, rec.split)
             IN  IF 2 * WaveSize(y_voiced) < SAMPLE_RATE
                   THEN Raised("Less than 0.5s of voiced speech.")
                 ELSE IF N_MFCC < 2
                   THEN Raised("Not enough MFCC coefficients computed.")
                 ELSE IF NormAboveEps(rec.raw)
                   THEN Returned(DivByNorm(rec.raw))
                   ELSE Returned(rec.raw)

\* ------------------------------------------------------------------ storage
\* users.json: username -> [audio_samples: sequence of [features]], features
\* being None or <<vector>> (the stored audio path is a timestamped file name
\* and is left out);
\* voiceprints.json: sequence of [user, vec] in the dict's insertion order.
Put(f, k, v) == [x \in (DOMAIN f) \cup {k} |-> IF x = k THEN v ELSE f[x]]

\* create_user without the membership test: an existing entry is replaced
create_user_reset(users_, username) ==
    Put(users_, username, [audio_samples |-> <<>>])

create_user(users_, username) ==
    IF username \notin DOMAIN users_
      THEN Put(users_, username, [audio_samples |-> <<>>])
      ELSE users_

register_sample(users_, username, features) ==
    LET us == IF username \notin DOMAIN users_
                THEN Put(users_, username, [audio_samples |-> <<>>])
                ELSE users_
        sample_entry == [features |-> Some(features)]
    IN  [us EXCEPT ![username].audio_samples = Append(@, sample_entry)]

RECURSIVE VecSum(_, _, _)
\* component k of the sum of feature_list[i..]
VecSum(feature_list, i, k) ==
    IF i > Len(feature_list) THEN RZero
    ELSE RAdd(feature_list[i].c[k], VecSum(feature_list, i + 1, k))

SameShapes(feature_list) ==
    \A i \in 1..Len(feature_list) :
        /\ Shape(feature_list[i]) = Shape(feature_list[1])
        /\ feature_list[i].e = feature_list[1].e
        /\ feature_list[i].q = feature_list[1].q

\* centroid that keeps the newest sample only
centroid_newest(feature_list) == feature_list[Len(feature_list)]

\* np.mean(np.stack(feature_list, axis=0), axis=0)
centroid(feature_list) ==
    Vec([k \in 1..Shape(feature_list[1]) |->
            RDiv(VecSum(feature_list, 1, k), RInt(Len(feature_list)))],
        feature_list[1].e, feature_list[1].q)

IndexOfUser(voiceprints_, username) ==
    IF \E i \in 1..Len(voiceprints_) : voiceprints_[i].user = username
      THEN CHOOSE i \in 1..Len(voiceprints_) : voiceprints_[i].user = username
      ELSE 0

\* SetVoiceprint on a fresh dict instead of the loaded one
SetVoiceprint_fresh(voiceprints_, username, vec) ==
    <<[user |-> username, vec |-> vec]>>

\* voiceprints[username] = vec on an insertion-ordered dict
SetVoiceprint(voiceprints_, username, vec) ==
    LET i == IndexOfUser(voiceprints_, username)
    IN  IF i = 0 THEN Append(voiceprints_, [user |-> username, vec |-> vec])
        ELSE [voiceprints_ EXCEPT ![i].vec = vec]

\* s.get("features") is not None
HasFeatures(s) == s.features # None

\* recompute_voiceprint that drops the user's entry when there is nothing to
\* average
recompute_voiceprint_clears(users_, voiceprints_, username) ==
    LET cleared == [ok |-> TRUE,
                    voiceprints |-> SelectSeq(voiceprints_, LAMBDA entry : entry.user # username)]
    IN  IF username \notin DOMAIN users_ THEN cleared
        ELSE LET samples == users_[username].audio_samples
                 usable == SelectSeq(samples, HasFeatures)
                 feature_list == [i \in 1..Len(usable) |-> usable[i].features[1]]
             IN  IF Len(samples) = 0 THEN cleared
                 ELSE IF Len(feature_list) = 0 THEN cleared
                 ELSE IF ~SameShapes(feature_list) THEN [ok |-> FALSE, voiceprints |-> voiceprints_]
                 ELSE [ok |-> TRUE,
                       voiceprints |-> SetVoiceprint(voiceprints_, username, centroid(feature_list))]

\* recompute_voiceprint(username): [ok, voiceprints]; ok is FALSE when
\* np.stack raises on feature lists of different shapes
recompute_voiceprint(users_, voiceprints_, username) ==
    IF username \notin DOMAIN users_ THEN [ok |-> TRUE, voiceprints |-> voiceprints_]
    ELSE LET samples == users_[username].audio_samples
             usable == SelectSeq(samples, HasFeatures)
             feature_list == [i \in 1..Len(usable) |-> usable[i].features[1]]
         IN  IF Len(samples) = 0 THEN [ok |-> TRUE, voiceprints |-> voiceprints_]
             ELSE IF Len(feature_list) = 0 THEN [ok |-> TRUE, voiceprints |-> voiceprints_]
             ELSE IF ~SameShapes(feature_list) THEN [ok |-> FALSE, voiceprints |-> voiceprints_]
             ELSE [ok |-> TRUE,
                   voiceprints |-> SetVoiceprint(voiceprints_, username, centroid(feature_list))]

\* ----------------------------------------------------------------- handlers
VARIABLES
    users,        \* users.json
    voiceprints,  \* voiceprints.json
    last_auth,    \* last_auth.json: None or <<result>>
    attempts,     \* attempts.json
    is_admin,     \* session["is_admin"]
    resp,         \* what the last request answered
    match_in,     \* the sample handed to predict_speaker, None or <<sample>>
    match_out,    \* what predict_speaker returned for it
    audio_in,     \* the recording handed to extract_features
    audio_out,    \* None or <<[voiced, result]>>
    procs         \* the enrollment requests in progress, one record each

vars == <<users, voiceprints, last_auth, attempts, is_admin, resp,
          match_in, match_out, audio_in, audio_out, procs>>
\* the variables of the two specifications that apply single functions
harness == <<match_in, match_out, audio_in, audio_out, procs>>

\* an API answer; page is the rendered dashboard, None for the API routes
Resp(op, code, msg, user, success, distance) ==
    [op |-> op, code |-> code, msg |-> msg, user |-> user,
     success |-> success, distance |-> distance, page |-> None]

\* render that shows the vault unlocked whenever a result is stored
render_any_result(last_auth_) ==
    [is_unlocked |-> last_auth_ # None,
     recognized_user |-> IF last_auth_ # None THEN last_auth_[1].user ELSE None,
     distance |-> IF last_auth_ # None THEN last_auth_[1].distance ELSE None,
     user_secret |-> IF last_auth_ # None THEN last_auth_[1].user ELSE None]

\* dashboard(), "Load state for display": what the template is given of the
\* vault; user_secret is None (the empty string) or <<u>>, the note kept for
\* user u in secrets.json
render(last_auth_) ==
    [is_unlocked |-> last_auth_ # None /\ last_auth_[1].success,
     recognized_user |-> IF last_auth_ # None THEN last_auth_[1].user ELSE None,
     distance |-> IF last_auth_ # None THEN last_auth_[1].distance ELSE None,
     user_secret |-> IF last_auth_ # None THEN last_auth_[1].user ELSE None]

\* the dashboard page with the flashed message and enroll_username
Page(msg, enroll_username, last_auth_) ==
    [op |-> "dashboard", code |-> 200, msg |-> msg, user |-> enroll_username,
     success |-> FALSE, distance |-> None, page |-> Some(render(last_auth_))]

NoUsers == [u \in {} |-> [audio_samples |-> <<>>]]

\* str.strip() on the form values the model submits
strip(s) == IF s = " " THEN "" ELSE s

\* dashboard(): a GET (action "view") or a POST with one of the three form
\* actions, then the page
dashboard(action, password, username) ==
    /\ \/ /\ action = "view"
          /\ is_admin' = is_admin
          /\ resp' = Page("", None, last_auth)
          /\ users' = users
       \/ /\ action = "admin_login"
          /\ IF password = ADMIN_PASSWORD
               THEN /\ is_admin' = TRUE
                    /\ resp' = Page("Admin login successful.", None, last_auth)
               ELSE /\ is_admin' = is_admin
                    /\ resp' = Page("Incorrect password.", None, last_auth)
          /\ users' = users
       \/ /\ action = "admin_logout"
          /\ is_admin' = FALSE
          /\ resp' = Page("Logged out of admin.", None, last_auth)
          /\ users' = users
       \/ /\ action = "enroll_user"
          /\ is_admin' = is_admin
          /\ IF ~is_admin
               THEN /\ users' = users
                    /\ resp' = Page("Admin login required to enroll users.", None, last_auth)
             ELSE IF strip(username) = ""
               THEN /\ users' = users
                    /\ resp' = Page("Username is required.", None, last_auth)
             ELSE /\ users' = create_user(users, strip(username))
                  /\ resp' = Page("ready for enrollment", Some(strip(username)), last_auth)
    /\ UNCHANGED <<voiceprints, last_auth, attempts>>

\* api_audio_enroll from the feature extraction on: ext is what
\* extract_features gave for the saved file
enroll_recomputed(us, voiceprints_, rv) ==
    IF ~rv.ok
      THEN [users |-> us, voiceprints |-> voiceprints_, code |-> 500,
            msg |-> "Failed to recompute voiceprint"]
      ELSE [users |-> us, voiceprints |-> rv.voiceprints, code |-> 200, msg |-> "ok"]

enroll_registered(us, voiceprints_, username) ==
    enroll_recomputed(us, voiceprints_, recompute_voiceprint(us, voiceprints_, username))

\* enroll_store that registers the sample entry (with empty statistics)
\* before it looks at the extraction result
enroll_store_registers_first(users_, voiceprints_, username, ext) ==
    IF ~ext.ok
      THEN [users |-> register_sample(users_, username, Vec(Pad(<<>>, FeatDim), 0, ROne)),
            voiceprints |-> voiceprints_, code |-> 500,
            msg |-> "Feature extraction failed"]
      ELSE enroll_registered(register_sample(users_, username, ext.features[1]),
                             voiceprints_, username)

enroll_store(users_, voiceprints_, username, ext) ==
    IF ~ext.ok
      THEN [users |-> users_, voiceprints |-> voiceprints_, code |-> 500,
            msg |-> "Feature extraction failed"]
      ELSE enroll_registered(register_sample(users_, username, ext.features[1]),
                             voiceprints_, username)

\* api_audio_enroll without the "Verify user exists" step
api_audio_enroll_unverified(audio, username) ==
    /\ IF audio = None \/ strip(username) = ""
         THEN /\ resp' = Resp("enroll", 400, "Missing audio file or username", None, FALSE, None)
              /\ UNCHANGED <<users, voiceprints>>
       ELSE LET reply(r) ==
                    /\ users' = r.users
                    /\ voiceprints' = r.voiceprints
                    /\ resp' = Resp("enroll", r.code, r.msg, Some(strip(username)), FALSE, None)
            IN  reply(enroll_store(users, voiceprints, strip(username),
                                   extract_features(audio[1])))
    /\ UNCHANGED <<last_auth, attempts, is_admin>>

\* api_audio_enroll(): audio is None or <<recording>>
api_audio_enroll(audio, username) ==
    /\ IF audio = None \/ strip(username) = ""
         THEN /\ resp' = Resp("enroll", 400, "Missing audio file or username", None, FALSE, None)
              /\ UNCHANGED <<users, voiceprints>>
       ELSE IF strip(username) \notin DOMAIN users
         THEN /\ resp' = Resp("enroll", 400, "not verified", Some(strip(username)), FALSE, None)
              /\ UNCHANGED <<users, voiceprints>>
       ELSE LET reply(r) ==
                    /\ users' = r.users
                    /\ voiceprints' = r.voiceprints
                    /\ resp' = Resp("enroll", r.code, r.msg, Some(strip(username)), FALSE, None)
            IN  reply(enroll_store(users, voiceprints, strip(username),
                                   extract_features(audio[1])))
    /\ UNCHANGED <<last_auth, attempts, is_admin>>

\* api_audio_authenticate, the decision: the result saved as last_auth
auth_record(success, best_user, distance) ==
    [success |-> success,
     user |-> IF success THEN best_user ELSE None,
     distance |-> distance,
     raw_best_user |-> best_user]
\* auth_result with "distance is None or distance < DISTANCE_THRESHOLD"
auth_result_none_accepts(best_user, distance) ==
    auth_record(distance = None \/ BelowThreshold(distance[1]), best_user, distance)

\* auth_result with "distance <= DISTANCE_THRESHOLD"
auth_result_inclusive(best_user, distance) ==
    auth_record(distance # None /\ ~SimLess(distance[1], ThresholdSim), best_user, distance)

auth_result(best_user, distance) ==
    auth_record(distance # None /\ BelowThreshold(distance[1]), best_user, distance)

log_attempt(attempts_, recognized_user, distance, success) ==
    Append(attempts_, [recognized_user |-> recognized_user, distance |-> distance,
                       success |-> success])

\* api_audio_authenticate(): audio is None or <<recording>>
api_audio_authenticate(audio) ==
    /\ IF audio = None
         THEN /\ resp' = Resp("authenticate", 400, "Missing audio file", None, FALSE, None)
              /\ UNCHANGED <<last_auth, attempts>>
       ELSE LET save(result) ==
                    /\ last_auth' = Some(result)
                    /\ attempts' = log_attempt(attempts, result.raw_best_user,
                                               result.distance, result.success)
                    /\ resp' = Resp("authenticate", 200, "", result.raw_best_user,
                                    result.success, result.distance)
                decide(p) == save(auth_result(p.user, p.distance))
                match(ext) ==
                    IF ~ext.ok
                      THEN /\ resp' = Resp("authenticate", 500, "Feature extraction failed",
                                           None, FALSE, None)
                           /\ UNCHANGED <<last_auth, attempts>>
                    ELSE IF Len(voiceprints) = 0
                      THEN /\ resp' = Resp("authenticate", 400, "No enrolled users",
                                           None, FALSE, None)
                           /\ UNCHANGED <<last_auth, attempts>>
                    ELSE decide(predict_speaker(voiceprints, ext.features[1]))
            IN  match(extract_features(audio[1]))
    /\ UNCHANGED <<users, voiceprints, is_admin>>

\* ------------------------------------------------------------------- inputs
MaxSamples == 2      \* enrollment samples stored, over all users
MaxAttempts == 1     \* logged authentication attempts
MaxStored == 2       \* entries of a voiceprints.json found at start-up
MaxIntervals == 2    \* intervals librosa.effects.split returns

Usernames == {"alice", "bob"}
FormUsernames == Usernames \cup {" "}
Passwords == {ADMIN_PASSWORD, "guess"}

Raw(lead) == Vec(Pad(lead, FeatDim), 0, ROne)

\* MFCC statistics of the recordings the system model uploads (all-zero and
\* tiny statistics are uploaded in SpecMatch)
RawFeatures == {Raw(<<5, 0>>), Raw(<<3, 4>>)}

\* a recording kept whole by trim and split
Whole(raw) == [n |-> SAMPLE_RATE, trim |-> <<0, SAMPLE_RATE>>,
               split |-> << <<0, SAMPLE_RATE>> >>, raw |-> raw]
\* one sample short of 0.5 s of voiced audio
TooShort == [n |-> SAMPLE_RATE, trim |-> <<1, SAMPLE_RATE \div 2>>,
             split |-> <<>>, raw |-> Raw(<<5, 0>>)]
EmptyFile == [n |-> 0, trim |-> <<0, 0>>, split |-> <<>>, raw |-> Raw(<<5, 0>>)]
Recordings == {Whole(raw) : raw \in RawFeatures} \cup {TooShort, EmptyFile}
Uploads == {None} \cup {Some(rec) : rec \in Recordings}
\* the uploads that carry a file on which extract_features raises
FailingUploads == {audio \in Uploads \ {None} : ~extract_features(audio[1]).ok}

RECURSIVE SumSamples(_, _)
SumSamples(users_, names) ==
    IF names = {} THEN 0
    ELSE LET u == CHOOSE x \in names : TRUE
         IN  Len(users_[u].audio_samples) + SumSamples(users_, names \ {u})
TotalSamples == SumSamples(users, DOMAIN users)

\* ------------------------------------------------------------ specification
Init ==
    /\ users = NoUsers
    /\ voiceprints = <<>>
    /\ last_auth = None
    /\ attempts = <<>>
    /\ is_admin = FALSE
    /\ resp = Resp("none", 0, "", None, FALSE, None)
    /\ match_in = None
    /\ match_out = None
    /\ audio_in = None
    /\ audio_out = [voiced |-> None, result |-> None]
    /\ procs = <<>>

\* the form fields an action does not read are left empty
Dashboard ==
    /\ \/ dashboard("view", "", "")
       \/ \E password \in Passwords : dashboard("admin_login", password, "")
       \/ dashboard("admin_logout", "", "")
       \/ \E username \in FormUsernames : dashboard("enroll_user", "", username)
    /\ UNCHANGED harness

Enroll ==
    /\ TotalSamples < MaxSamples
    /\ \E audio \in Uploads, username \in FormUsernames : api_audio_enroll(audio, username)
    /\ UNCHANGED harness

\* the requests that log no attempt stay possible when the log is full
Authenticate ==
    /\ \E audio \in Uploads :
           /\ \/ Len(attempts) < MaxAttempts
              \/ audio = None
              \/ audio \in FailingUploads
              \/ Len(voiceprints) = 0
           /\ api_audio_authenticate(audio)
    /\ UNCHANGED harness

Next == Dashboard \/ Enroll \/ Authenticate

Spec == Init /\ [][Next]_vars

\* ------------------------------------------- the matcher on any stored mapping
\* A voiceprints.json left by earlier runs can hold vectors of any dimension
\* and size.  SpecMatch starts from each such mapping and serves one call:
\* predict_speaker on a sample, or an authentication request whose recording
\* has that sample as its MFCC statistics.
MatchDim == 5
MatchUsers == {"alice", "bob", "carol"}
Wide(lead) == Vec(Pad(lead, MatchDim), 0, ROne)

VecE1 == Wide(<<1>>)                                \* unit
VecEdge == DivByNorm(Wide(<<99, 14, 1, 1, 1>>))     \* unit, cosine 0.99 to VecE1
VecNear == Wide(<<10, 1>>)                          \* cosine 10/sqrt(101) to VecE1
VecFar == DivByNorm(Wide(<<3, 4>>))                 \* unit, cosine 0.6 to VecE1
VecZero == Wide(<<>>)                               \* zero vector
VecTiny == Vec(Pad(<<1>>, MatchDim), 11, ROne)      \* 1e-11 * VecE1
VecOpp == Wide(<<-1>>)                              \* -VecE1
VecNarrow == Vec(Pad(<<1>>, 2), 0, ROne)            \* another dimension
VecDouble == Wide(<<2>>)                            \* 2 * VecE1

StoreVecs == {VecE1, VecEdge, VecNear, VecFar, VecZero, VecTiny, VecOpp, VecNarrow}
Samples == {VecE1, VecDouble, VecFar, VecZero, VecTiny, VecNarrow}

StoreEntries == [user : MatchUsers, vec : StoreVecs]
Stores ==
    UNION {{st \in [1..n -> StoreEntries] :
               \A i, j \in 1..n : i # j => st[i].user # st[j].user} : n \in 0..MaxStored}

InitMatch ==
    /\ voiceprints \in Stores
    /\ users = NoUsers
    /\ last_auth = None
    /\ attempts = <<>>
    /\ is_admin = FALSE
    /\ resp = Resp("none", 0, "", None, FALSE, None)
    /\ match_in = None
    /\ match_out = None
    /\ audio_in = None
    /\ audio_out = [voiced |-> None, result |-> None]
    /\ procs = <<>>

Fresh == match_in = None /\ resp.op = "none"

\* best_user, distance = predict_speaker(voiceprints, features), then the
\* decision of api_audio_authenticate on what it returned
Match(sample) ==
    /\ Fresh
    /\ match_in' = Some(sample)
    /\ LET decide(p) ==
               match_out' = Some([pred |-> p, result |-> auth_result(p.user, p.distance)])
       IN  decide(predict_speaker(voiceprints, sample))
    /\ UNCHANGED <<users, voiceprints, last_auth, attempts, is_admin, resp, audio_in,
                   audio_out, procs>>

\* an authentication request; match_in keeps the statistics of its recording
AuthenticateStored(sample) ==
    /\ Fresh
    /\ api_audio_authenticate(Some(Whole(sample)))
    /\ match_in' = Some(sample)
    /\ UNCHANGED <<match_out, audio_in, audio_out, procs>>

NextMatch == \E sample \in Samples : Match(sample) \/ AuthenticateStored(sample)

SpecMatch == InitMatch /\ [][NextMatch]_vars

\* ------------------------------------------------ extraction on any recording
\* SpecAudio starts from each recording (its size, and what librosa's trim
\* and split answer for it) and applies _apply_vad and extract_features.
CutPoints == {0, 1, SAMPLE_RATE \div 2, SAMPLE_RATE}
Sizes == {0, 1, SAMPLE_RATE \div 2, SAMPLE_RATE}
Pairs == {p \in CutPoints \X CutPoints : p[1] <= p[2]}
Splits == UNION {[1..n -> Pairs] : n \in 0..MaxIntervals}
AudioInputs == [n : Sizes, trim : Pairs, split : Splits, raw : {Raw(<<3, 4>>)}]

InitAudio ==
    /\ audio_in \in {Some(rec) : rec \in AudioInputs}
    /\ audio_out = [voiced |-> None, result |-> None]
    /\ procs = <<>>
    /\ users = NoUsers
    /\ voiceprints = <<>>
    /\ last_auth = None
    /\ attempts = <<>>
    /\ is_admin = FALSE
    /\ resp = Resp("none", 0, "", None, FALSE, None)
    /\ match_in = None
    /\ match_out = None

\* y_voiced = _apply_vad(y), called on a signal that is not empty
Vad ==
    /\ audio_in[1].n > 0
    /\ audio_out' = [audio_out EXCEPT !.voiced =
           Some(apply_vad(Loaded(audio_in[1].n), audio_in[1].trim, audio_in[1].split))]
    /\ UNCHANGED <<users, voiceprints, last_auth, attempts, is_admin, resp,
                   match_in, match_out, audio_in, procs>>

Extract ==
    /\ audio_out' = [audio_out EXCEPT !.result = Some(extract_features(audio_in[1]))]
    /\ UNCHANGED <<users, voiceprints, last_auth, attempts, is_admin, resp,
                   match_in, match_out, audio_in, procs>>

NextAudio == Vad \/ Extract

SpecAudio == InitAudio /\ [][NextAudio]_vars

\* ------------------------------------------- the storage on any users.json
\* SpecStorage starts from each users.json and voiceprints.json in which
\* every voiceprint belongs to a user with samples, and applies the storage
\* functions in any order, recompute_voiceprint on unknown users and on users
\* without usable samples included.
StoredFeatures == {Raw(<<1, 0>>), Raw(<<3, 4>>), Vec(<<ROne>>, 0, ROne)}
SampleEntries == {[features |-> Some(f)] : f \in StoredFeatures} \cup {[features |-> None]}
SampleLists == UNION {[1..n -> SampleEntries] : n \in 0..MaxSamples}
UserStores ==
    UNION {[names -> [audio_samples : SampleLists]] : names \in SUBSET Usernames}
Enrolled(users_) == {u \in DOMAIN users_ : Len(users_[u].audio_samples) >= 1}
VoiceprintStores(users_) ==
    UNION {{st \in [1..n -> [user : Enrolled(users_), vec : {Raw(<<1, 0>>)}]] :
               \A i, j \in 1..n : i # j => st[i].user # st[j].user}
           : n \in 0..Cardinality(Enrolled(users_))}

InitStorage ==
    /\ users \in UserStores
    /\ voiceprints \in VoiceprintStores(users)
    /\ last_auth = None
    /\ attempts = <<>>
    /\ is_admin = FALSE
    /\ resp = Resp("none", 0, "", None, FALSE, None)
    /\ match_in = None
    /\ match_out = None
    /\ audio_in = None
    /\ audio_out = [voiced |-> None, result |-> None]
    /\ procs = <<>>

CreateUser(username) ==
    /\ users' = create_user(users, username)
    /\ resp' = Resp("create_user", 200, "", Some(username), FALSE, None)
    /\ UNCHANGED <<voiceprints, last_auth, attempts, is_admin>>
    /\ UNCHANGED harness

RegisterSample(username, features) ==
    /\ username \in DOMAIN users => Len(users[username].audio_samples) < MaxSamples
    /\ users' = register_sample(users, username, features)
    /\ resp' = Resp("register_sample", 200, "", Some(username), FALSE, None)
    /\ UNCHANGED <<voiceprints, last_auth, attempts, is_admin>>
    /\ UNCHANGED harness

Recompute(username) ==
    /\ LET written(rv) ==
               /\ voiceprints' = rv.voiceprints
               /\ resp' = Resp("recompute", IF rv.ok THEN 200 ELSE 500, "",
                               Some(username), FALSE, None)
       IN  written(recompute_voiceprint(users, voiceprints, username))
    /\ UNCHANGED <<users, last_auth, attempts, is_admin>>
    /\ UNCHANGED harness

NextStorage ==
    \E username \in Usernames :
        \/ CreateUser(username)
        \/ \E features \in StoredFeatures : RegisterSample(username, features)
        \/ Recompute(username)

SpecStorage == InitStorage /\ [][NextStorage]_vars

\* ------------------------------------------- two enrollment requests at once
\* SpecRace runs two enrollment uploads whose file reads and writes
\* interleave, as the threaded server runs them.  Each request is at one of
\* the points of api_audio_enroll between two accesses to users.json or
\* voiceprints.json; a read or a write of a file is one step.
EnrollFeatures ==
    {extract_features(Whole(raw)).features[1] : raw \in {Raw(<<5, 0>>), Raw(<<3, 4>>)}}
RaceLists ==
    UNION {[1..n -> {[features |-> Some(f)] : f \in EnrollFeatures}] : n \in 0..(MaxSamples - 1)}
RaceStores == [Usernames -> [audio_samples : RaceLists]]
\* the voiceprints.json that earlier enrollments left for a users.json
RaceVoiceprints(users_) ==
    recompute_voiceprint(users_, recompute_voiceprint(users_, <<>>, "alice").voiceprints,
                         "bob").voiceprints
Request(username, features, before) ==
    [pc |-> "verify", username |-> username, features |-> features,
     users_ |-> NoUsers, voiceprints_ |-> <<>>, before |-> before, code |-> 0]

InitRace ==
    /\ users \in RaceStores
    /\ voiceprints = RaceVoiceprints(users)
    /\ procs \in {<<Request(u1, f1, Len(users[u1].audio_samples)),
                     Request(u2, f2, Len(users[u2].audio_samples))>> :
                      u1 \in Usernames, f1 \in EnrollFeatures,
                      u2 \in Usernames, f2 \in EnrollFeatures}
    /\ last_auth = None
    /\ attempts = <<>>
    /\ is_admin = FALSE
    /\ resp = Resp("none", 0, "", None, FALSE, None)
    /\ match_in = None
    /\ match_out = None
    /\ audio_in = None
    /\ audio_out = [voiced |-> None, result |-> None]

Finished(p, code) == [procs EXCEPT ![p].pc = "done", ![p].code = code]

\* what an enrollment request in progress does not touch
idle == <<last_auth, attempts, is_admin, resp, match_in, match_out, audio_in, audio_out>>

\* api_audio_enroll: users = storage.load_users(), "Verify user exists"; the
\* file is saved and its features extracted without a look at the stores
EnrollVerify(p) ==
    /\ procs[p].pc = "verify"
    /\ procs' = IF procs[p].username \notin DOMAIN users
                  THEN Finished(p, 400)
                  ELSE [procs EXCEPT ![p].pc = "reg_load"]
    /\ UNCHANGED <<users, voiceprints>>
    /\ UNCHANGED idle

\* register_sample: users = load_users()
RegisterLoad(p) ==
    /\ procs[p].pc = "reg_load"
    /\ procs' = [procs EXCEPT ![p].pc = "reg_save", ![p].users_ = users]
    /\ UNCHANGED <<users, voiceprints>>
    /\ UNCHANGED idle

\* register_sample: the entry is appended to what was loaded, save_users(users)
RegisterSave(p) ==
    /\ procs[p].pc = "reg_save"
    /\ users' = register_sample(procs[p].users_, procs[p].username, procs[p].features)
    /\ procs' = [procs EXCEPT ![p].pc = "rc_users"]
    /\ UNCHANGED voiceprints
    /\ UNCHANGED idle

\* recompute_voiceprint: users = load_users() and the centroid of what it
\* holds; it returns here when there is nothing to average, and np.stack
\* raises here
RecomputeLoadUsers(p) ==
    /\ procs[p].pc = "rc_users"
    /\ LET next(rv) ==
               procs' = IF ~rv.ok THEN Finished(p, 500)
                        ELSE IF rv.voiceprints = <<>> THEN Finished(p, 200)
                        ELSE [procs EXCEPT ![p].pc = "rc_load", ![p].users_ = users]
       IN  next(recompute_voiceprint(users, <<>>, procs[p].username))
    /\ UNCHANGED <<users, voiceprints>>
    /\ UNCHANGED idle

\* recompute_voiceprint: voiceprints = load_voiceprints()
RecomputeLoad(p) ==
    /\ procs[p].pc = "rc_load"
    /\ procs' = [procs EXCEPT ![p].pc = "rc_save", ![p].voiceprints_ = voiceprints]
    /\ UNCHANGED <<users, voiceprints>>
    /\ UNCHANGED idle

\* recompute_voiceprint: voiceprints[username] = centroid,
\* save_voiceprints(voiceprints); the request answers 200
RecomputeSave(p) ==
    /\ procs[p].pc = "rc_save"
    /\ voiceprints' = recompute_voiceprint(procs[p].users_, procs[p].voiceprints_,
                                           procs[p].username).voiceprints
    /\ procs' = Finished(p, 200)
    /\ UNCHANGED users
    /\ UNCHANGED idle

NextRace ==
    \E p \in 1..2 :
        \/ EnrollVerify(p)
        \/ RegisterLoad(p)
        \/ RegisterSave(p)
        \/ RecomputeLoadUsers(p)
        \/ RecomputeLoad(p)
        \/ RecomputeSave(p)

SpecRace == InitRace /\ [][NextRace]_vars

\* =================================================================== claims
\* the entries of the stored mapping that have the sample's dimension
Compatible(i) == Shape(voiceprints[i].vec) = Shape(match_in[1])

\* the cosine distance of two vectors taken from their components alone
\* (the scales cancel): similarity sign(a.b) * sqrt((a.b)^2 / (|a|^2 |b|^2)),
\* and 2.0 when a norm is zero
CosOf(d, na, nb) ==
    IF na = RZero \/ nb = RZero THEN DistTwo
    ELSE Scalar(RSign(d), RDiv(RMul(d, d), RMul(na, nb)), 0)
CosDist(a, b) ==
    CosOf(RDot(a.c, b.c, 1, Len(a.c)), RSumSq(a.c, 1, Len(a.c)), RSumSq(b.c, 1, Len(b.c)))

EntryDist(i) == CosDist(match_in[1], voiceprints[i].vec)

\* C2: predict_speaker returns a compatible entry's user with that entry's
\* cosine distance; no compatible entry is strictly closer, and every
\* compatible entry before it in the iteration order is strictly farther.
C2_MinimumFirst ==
    (match_out # None /\ match_out[1].pred.user # None) =>
        \E i \in 1..Len(voiceprints) :
            /\ Compatible(i)
            /\ match_out[1].pred.user = Some(voiceprints[i].user)
            /\ match_out[1].pred.distance = Some(EntryDist(i))
            /\ \A j \in 1..Len(voiceprints) :
                   Compatible(j) => ~DistLess(EntryDist(j), EntryDist(i))
            /\ \A j \in 1..(i - 1) :
                   Compatible(j) => DistLess(EntryDist(i), EntryDist(j))

\* two compatible entries tie for the minimum and the first was returned
C2_Witness ==
    /\ match_out # None
    /\ Len(voiceprints) >= 2
    /\ Compatible(1) /\ Compatible(2)
    /\ EntryDist(1) = EntryDist(2)
    /\ EntryDist(1) # DistTwo
    /\ match_out[1].pred.user = Some(voiceprints[1].user)

\* the position of the returned user in the stored mapping
BestIndex ==
    CHOOSE i \in 1..Len(voiceprints) : match_out[1].pred.user = Some(voiceprints[i].user)

\* C3: the returned user is never an entry of another dimension than the
\* sample's, and (None, None) is returned exactly when the stored mapping
\* (empty or not) has no entry of the sample's dimension.
C3_SkipsMismatch ==
    match_out # None =>
        /\ (match_out[1].pred.user = None) <=> (\A i \in 1..Len(voiceprints) : ~Compatible(i))
        /\ (match_out[1].pred.user = None) <=> (match_out[1].pred.distance = None)
        /\ match_out[1].pred.user # None =>
               /\ \E i \in 1..Len(voiceprints) : match_out[1].pred.user = Some(voiceprints[i].user)
               /\ Compatible(BestIndex)

\* an entry of another dimension comes first and the compatible entry after
\* it is returned
C3_Witness ==
    /\ match_out # None
    /\ Len(voiceprints) >= 2
    /\ ~Compatible(1)
    /\ Compatible(2)
    /\ match_out[1].pred.user = Some(voiceprints[2].user)

\* the squared norm of a vector is below (1e-10)^2, from its components
BelowEps(v) ==
    LET ss == RSumSq(v.c, 1, Len(v.c))
    IN  \/ ss = RZero
        \/ v.e > EpsExp /\ ~RLess(RInt(Pow10(2 * (v.e - EpsExp))), RDiv(ss, v.q))
ZeroNorm(v) == RSumSq(v.c, 1, Len(v.c)) = RZero

\* C4 (as claimed): when the sample or the returned entry has a norm below
\* 1e-10, the returned distance is 2.0 and the decision is a reject.
C4_BelowEpsIsTwo ==
    (match_out # None /\ match_out[1].pred.user # None
       /\ (BelowEps(match_in[1]) \/ BelowEps(voiceprints[BestIndex].vec))) =>
        /\ match_out[1].pred.distance = Some(DistTwo)
        /\ ~match_out[1].result.success

\* C5 (as claimed): the returned entry never has zero norm.
C5_ZeroNeverBest ==
    (match_out # None /\ match_out[1].pred.user # None) =>
        ~ZeroNorm(voiceprints[BestIndex].vec)

\* C5 (amended): a zero-norm entry is returned only with distance 2.0, only
\* when no compatible entry is closer than 2.0, and the decision rejects it.
C5_ZeroOnlyAtTwo ==
    (match_out # None /\ match_out[1].pred.user # None
       /\ ZeroNorm(voiceprints[BestIndex].vec)) =>
        /\ match_out[1].pred.distance = Some(DistTwo)
        /\ \A j \in 1..Len(voiceprints) :
               Compatible(j) => ~DistLess(EntryDist(j), DistTwo)
        /\ ~match_out[1].result.success

\* a zero-norm entry is returned, ahead of a later entry opposite to the sample
C5_Witness ==
    /\ match_out # None
    /\ Len(voiceprints) >= 2
    /\ match_out[1].pred.user = Some(voiceprints[1].user)
    /\ ZeroNorm(voiceprints[1].vec)
    /\ Compatible(2)
    /\ ~ZeroNorm(voiceprints[2].vec)
    /\ ~ZeroNorm(match_in[1])

\* a distance d is below 0.01: its similarity 1 - d is positive with square
\* above 0.99^2 = 9801/10000
Under001(d) == d.s = 1 /\ RLess(<<9801, 10000>>, d.q)
IsUnit(v) == v.e = 0 /\ v.q = ROne /\ RSumSq(v.c, 1, Len(v.c)) = ROne

\* what api_audio_authenticate must save and answer for the pair p that
\* predict_speaker returned
Decided(p) ==
    /\ last_auth # None
    /\ last_auth[1].success <=> (p.distance # None /\ Under001(p.distance[1]))
    /\ last_auth[1].user = (IF last_auth[1].success THEN p.user ELSE None)
    /\ last_auth[1].distance = p.distance
    /\ last_auth[1].raw_best_user = p.user
    /\ resp.success = last_auth[1].success
DecidedFor(features) ==
    /\ Decided(predict_speaker(voiceprints, features))
    /\ (IsUnit(features) /\ \E i \in 1..Len(voiceprints) : voiceprints[i].vec = features) =>
           /\ last_auth[1].distance = Some(DistZero)
           /\ last_auth[1].success

\* C6: after an authentication request that reached the matcher, the saved
\* success holds exactly when a distance was returned and it is strictly
\* below 0.01; the authenticated user is the matched user when success holds
\* and None otherwise; a sample equal to a stored unit voiceprint is accepted
\* at distance 0.
C6_Decision ==
    (resp.op = "authenticate" /\ resp.code = 200) =>
        DecidedFor(extract_features(Whole(match_in[1])).features[1])

\* the returned distance is exactly 0.01 and the saved decision is a reject,
\* with the matched user not recorded as authenticated
C6_Witness ==
    /\ last_auth # None
    /\ last_auth[1].distance = Some(Scalar(1, <<9801, 10000>>, 0))
    /\ ~last_auth[1].success
    /\ last_auth[1].user = None
    /\ last_auth[1].raw_best_user # None

\* component k of the sum of the first i stored samples, last sample first
RECURSIVE SumBack(_, _, _)
SumBack(samples, i, k) ==
    IF i = 0 THEN RZero ELSE RAdd(samples[i].features[1].c[k], SumBack(samples, i - 1, k))

MeanOf(samples, vec) ==
    /\ Shape(vec) = FeatDim
    /\ vec.e = 0 /\ vec.q = ROne
    /\ \A k \in 1..FeatDim :
           RMul(RInt(Len(samples)), vec.c[k]) = SumBack(samples, Len(samples), k)

\* C1: every user with at least one stored sample has exactly one voiceprint
\* entry, and that voiceprint times the number of samples is the
\* component-wise sum of all the user's sample vectors.
C1_VoiceprintIsMean ==
    \A u \in DOMAIN users :
        Len(users[u].audio_samples) >= 1 =>
            /\ Cardinality({i \in 1..Len(voiceprints) : voiceprints[i].user = u}) = 1
            /\ \A i \in 1..Len(voiceprints) :
                   voiceprints[i].user = u => MeanOf(users[u].audio_samples, voiceprints[i].vec)

\* an enrollment just succeeded for a user whose samples differ
C1_Witness ==
    /\ resp.op = "enroll" /\ resp.code = 200
    /\ Len(users[resp.user[1]].audio_samples) >= 2
    /\ users[resp.user[1]].audio_samples[1] # users[resp.user[1]].audio_samples[2]

\* C7: an enrollment request for a known user whose feature extraction fails
\* answers with the extraction error and leaves the user store and the
\* voiceprints as they were.
C7_FailedExtractionStoresNothing ==
    [][\A audio \in FailingUploads, username \in FormUsernames :
          (/\ strip(username) \in DOMAIN users
           /\ api_audio_enroll(audio, username)) =>
              /\ users' = users
              /\ voiceprints' = voiceprints
              /\ resp'.code = 500
              /\ resp'.msg = "Feature extraction failed"]_vars

\* an enrollment failed at extraction for a user who already has samples
C7_Witness ==
    /\ resp.op = "enroll" /\ resp.code = 500
    /\ resp.msg = "Feature extraction failed"
    /\ Len(users[resp.user[1]].audio_samples) >= 1
    /\ Len(voiceprints) >= 1

\* C10: in every step every user stays in the user store and the user's
\* sample list keeps its entries, in place, growing only at its end.
C10_AppendOnly ==
    [][\A u \in DOMAIN users :
          /\ u \in DOMAIN users'
          /\ Len(users'[u].audio_samples) >= Len(users[u].audio_samples)
          /\ SubSeq(users'[u].audio_samples, 1, Len(users[u].audio_samples))
                 = users[u].audio_samples]_vars

\* the dashboard's enroll_user ran create_user for a user who has samples
C10_Witness ==
    /\ resp.op = "dashboard" /\ resp.msg = "ready for enrollment"
    /\ Len(users[resp.user[1]].audio_samples) >= 1

\* C8: extract_features raises, and returns no feature vector, when the
\* voiced waveform has fewer than 8000 samples (0.5 s at 16 kHz); with 8000
\* samples or more it does not raise for lack of voiced audio.
C8_HalfSecondFloor ==
    (audio_out.voiced # None /\ audio_out.result # None) =>
        /\ WaveSize(audio_out.voiced[1]) < 8000 =>
               /\ ~audio_out.result[1].ok
               /\ audio_out.result[1].features = None
               /\ audio_out.result[1].error = "Less than 0.5s of voiced speech."
        /\ WaveSize(audio_out.voiced[1]) >= 8000 =>
               audio_out.result[1].error # "Less than 0.5s of voiced speech."

\* a voiced waveform of 7999 samples was refused
C8_Witness ==
    /\ audio_out.voiced # None /\ audio_out.result # None
    /\ WaveSize(audio_out.voiced[1]) = 7999
    /\ ~audio_out.result[1].ok

\* the slices of the trimmed signal that split's intervals select
NotEmpty(w) == w # <<>>
KeptSlices(y_trimmed, split) ==
    SelectSeq([i \in 1..Len(split) |-> Slice(y_trimmed, split[i][1], split[i][2])], NotEmpty)
IsConcat(w, slices) ==
    /\ Len(w) = Len(slices)
    /\ \A j \in 1..Len(w) : <<w[j]>> = slices[j]

VadResultOf(y, trimmed, split, voiced) ==
    /\ WaveSize(voiced) > 0
    /\ IF Len(split) = 0 \/ KeptSlices(IF trimmed = <<>> THEN y ELSE trimmed, split) = <<>>
         THEN voiced = (IF trimmed = <<>> THEN y ELSE trimmed)
         ELSE IsConcat(voiced, KeptSlices(IF trimmed = <<>> THEN y ELSE trimmed, split))

\* C9: on a signal that is not empty, _apply_vad returns a waveform that is
\* not empty: the original signal when trim leaves nothing, the trimmed
\* signal when split gives no interval or only empty ones, and otherwise
\* the intervals' slices in split's order.
C9_VadNeverEmpty ==
    audio_out.voiced # None =>
        VadResultOf(Loaded(audio_in[1].n),
                    Slice(Loaded(audio_in[1].n), audio_in[1].trim[1], audio_in[1].trim[2]),
                    audio_in[1].split, audio_out.voiced[1])

\* trim left nothing, split gave only empty intervals, and the original
\* signal came back
C9_Witness ==
    /\ audio_out.voiced # None
    /\ Slice(Loaded(audio_in[1].n), audio_in[1].trim[1], audio_in[1].trim[2]) = <<>>
    /\ Len(audio_in[1].split) >= 1
    /\ audio_out.voiced[1] = Loaded(audio_in[1].n)

\* the entries of a stored mapping that belong to other users than u
OtherEntries(voiceprints_, u) ==
    SelectSeq(voiceprints_, LAMBDA entry : entry.user # u)

\* every user keeps the sample list, and a new user has none
SamplesKept ==
    /\ \A u \in DOMAIN users :
           u \in DOMAIN users' /\ users'[u].audio_samples = users[u].audio_samples
    /\ \A u \in (DOMAIN users') \ (DOMAIN users) : users'[u].audio_samples = <<>>

\* C11: a step of an authentication request or of a dashboard action leaves
\* the stored voiceprints and every user's sample list as they were; a step
\* of an enrollment request changes no voiceprint entry but the one of the
\* user it enrolls, and no other user's sample list.
C11_VoiceprintFrame ==
    [][/\ resp'.op \in {"authenticate", "dashboard"} =>
              voiceprints' = voiceprints /\ SamplesKept
       /\ resp'.op = "enroll" =>
              /\ resp'.user = None => voiceprints' = voiceprints /\ users' = users
              /\ resp'.user # None =>
                     /\ OtherEntries(voiceprints', resp'.user[1])
                            = OtherEntries(voiceprints, resp'.user[1])
                     /\ \A u \in (DOMAIN users) \ {resp'.user[1]} :
                            u \in DOMAIN users' /\ users'[u] = users[u]]_vars

\* an authentication was decided against a stored voiceprint that is not of
\* unit length, which predict_speaker had to normalise
C11_Witness ==
    /\ resp.op = "authenticate" /\ resp.code = 200
    /\ \E i \in 1..Len(voiceprints) :
           RSumSq(voiceprints[i].vec.c, 1, Len(voiceprints[i].vec.c)) \notin {RZero, ROne}

\* the user has nothing recompute_voiceprint could average
NothingToAverage(users_, username) ==
    \/ username \notin DOMAIN users_
    \/ \A i \in 1..Len(users_[username].audio_samples) :
           users_[username].audio_samples[i].features = None

\* C12: recompute_voiceprint for an unknown user, a user without samples or
\* a user none of whose samples has features leaves the stored voiceprints
\* (and the user store) as they were; and every user with a voiceprint entry
\* is in the user store with at least one sample.
C12_RecomputeNoOp ==
    /\ [](\A i \in 1..Len(voiceprints) :
             /\ voiceprints[i].user \in DOMAIN users
             /\ Len(users[voiceprints[i].user].audio_samples) >= 1)
    /\ [][(resp'.op = "recompute" /\ NothingToAverage(users, resp'.user[1])) =>
              voiceprints' = voiceprints /\ users' = users]_vars

\* recompute_voiceprint ran for a user who has a voiceprint and samples, none
\* of them with features
C12_Witness ==
    /\ resp.op = "recompute"
    /\ resp.user[1] \in DOMAIN users
    /\ Len(users[resp.user[1]].audio_samples) >= 1
    /\ NothingToAverage(users, resp.user[1])
    /\ \E i \in 1..Len(voiceprints) : voiceprints[i].user = resp.user[1]

\* C13: an authentication request that finds no stored voiceprint, or none of
\* the sample's dimension, is answered (400 "No enrolled users" for the empty
\* mapping, 200 otherwise) and not failed with an error; the answer has
\* success false and no recognised user, and a result it saves has success
\* false and no authenticated user.
C13_NoCandidateRejected ==
    (/\ resp.op = "authenticate"
     /\ match_in # None
     /\ \A i \in 1..Len(voiceprints) : ~Compatible(i)) =>
        /\ resp.code = (IF Len(voiceprints) = 0 THEN 400 ELSE 200)
        /\ ~resp.success
        /\ resp.user = None
        /\ Len(voiceprints) = 0 => resp.msg = "No enrolled users" /\ last_auth = None
        /\ Len(voiceprints) > 0 =>
               /\ last_auth # None
               /\ ~last_auth[1].success
               /\ last_auth[1].user = None
               /\ last_auth[1].distance = None

\* an authentication against two stored voiceprints, both of another
\* dimension than the sample, was answered with a reject
C13_Witness ==
    /\ resp.op = "authenticate" /\ resp.code = 200
    /\ match_in # None
    /\ Len(voiceprints) >= 2
    /\ \A i \in 1..Len(voiceprints) : ~Compatible(i)
    /\ last_auth # None
    /\ ~last_auth[1].success

\* every dashboard page shows the vault unlocked exactly when the stored
\* result has success true, and a user's secret only then
ShownAsStored ==
    resp.page # None =>
        /\ resp.page[1].is_unlocked <=> (last_auth # None /\ last_auth[1].success)
        /\ resp.page[1].user_secret # None => resp.page[1].is_unlocked

C16_UsersFromAdmin ==
    /\ [](\A i \in 1..Len(voiceprints) : voiceprints[i].user \in DOMAIN users)
    /\ [][/\ DOMAIN users' # DOMAIN users =>
                 /\ is_admin /\ is_admin'
                 /\ resp'.op = "dashboard" /\ resp'.msg = "ready for enrollment"
                 /\ DOMAIN users' = (DOMAIN users) \cup {resp'.user[1]}
          /\ (resp'.op = "enroll" /\ resp'.user # None /\ resp'.user[1] \notin DOMAIN users) =>
                 /\ resp'.code = 400
                 /\ users' = users
                 /\ voiceprints' = voiceprints]_vars

\* an upload with audio for a username that is not in the user store was
\* rejected, while another user is enrolled
C16_Witness ==
    /\ resp.op = "enroll" /\ resp.code = 400
    /\ resp.user # None
    /\ resp.user[1] \notin DOMAIN users
    /\ Len(voiceprints) >= 1

\* the request's sample is the newest of its user's stored samples, one more
\* than when the request began, and the user's voiceprint is their mean
EnrollmentStored(r) ==
    /\ Len(users[r.username].audio_samples) = r.before + 1
    /\ users[r.username].audio_samples[r.before + 1].features = Some(r.features)
    /\ \E i \in 1..Len(voiceprints) :
           /\ voiceprints[i].user = r.username
           /\ MeanOf(users[r.username].audio_samples, voiceprints[i].vec)

\* C14 (as claimed): when two interleaved enrollment requests for two
\* different users have both answered 200, each user's new sample is stored
\* and each user's voiceprint is the mean of the user's samples.
C14_DifferentUsersBothStored ==
    (/\ Len(procs) = 2
     /\ procs[1].username # procs[2].username
     /\ \A p \in 1..2 : procs[p].pc = "done" /\ procs[p].code = 200) =>
        \A p \in 1..2 : EnrollmentStored(procs[p])

====
